---- MODULE Spec2Model ----
(***************************************************************************)
(* Model of the startfast generation engine: ProjectConfig, the generator  *)
(* registry of ProjectGenerator, the three phases of                       *)
(* ProjectGenerator.generate (directory scaffold, generator loop,          *)
(* post-generation setup), BaseGenerator.write_file / format_template and  *)
(* the command line front ends that confirm a destructive overwrite.       *)
(*                                                                         *)
(* A path is the sequence of its components relative to config.path; the   *)
(* empty sequence is the target directory itself.  A file content is a     *)
(* sequence of tags naming the template body and the variant blocks that   *)
(* the code selected for it; the empty sequence is the empty string.       *)
(***************************************************************************)
EXTENDS Integers, Sequences, FiniteSets, TLC

\* ------------------------------------------------------------------------
\* Configuration model (generators/config.py)
\* ------------------------------------------------------------------------

ProjectType == {"api", "crud", "ml-api", "microservice"}

DatabaseType == {"sqlite", "postgresql", "mysql", "mongodb", "redis"}

AuthType == {"none", "jwt", "oauth2", "api-key"}

ProjectConfig ==
    [project_type : ProjectType, database_type : DatabaseType,
     auth_type : AuthType, is_async : BOOLEAN, is_advanced : BOOLEAN,
     include_docker : BOOLEAN, include_tests : BOOLEAN,
     include_docs : BOOLEAN, include_monitoring : BOOLEAN,
     include_celery : BOOLEAN]

\* ------------------------------------------------------------------------
\* Bounds
\* ------------------------------------------------------------------------

\* number of runs of ProjectGenerator.generate made against one target
MaxRuns == 2

\* ------------------------------------------------------------------------
\* State
\* ------------------------------------------------------------------------

VARIABLES
    config,     \* the ProjectConfig shared by the orchestrator and generators
    fs,         \* what is at config.path: kind, directories, files
    prior,      \* what was at config.path when the current run began
    pc,         \* position in ProjectGenerator.generate
    idx,        \* position of the _generate_files loop in self.generators
    invoked,    \* generators whose generate() was called, in call order
    wlog,       \* <<writer, path>> of every file write of the current run
    run,        \* number of the current run against this target
    prev,       \* tree left by the previous run
    prevEmpty,  \* whether the previous run began on an empty target
    cli,        \* front end in use, "none" when the engine is called directly
    cliPc,      \* position in the front end
    force,      \* --force
    sawExisting,\* os.path.exists(project_path) as evaluated by the front end
    answers,    \* answers given to the confirmation prompts, in order
    exitCode,   \* process exit status, -1 while running
    name,       \* config.name (args.name before the configuration is built)
    rejected,   \* whether a front end has refused a project name
    derived,    \* the case derivations of name, once get_template_vars ran
    origin,     \* how name was obtained: typed in, or taken from a derivation
    template,   \* the template text handed to a render call
    extra,      \* the extra_vars handed to a render call
    rendered    \* the outcome of the render call, <<>> before it

engineVars == <<config, fs, prior, pc, idx, invoked, wlog>>

rerunVars == <<run, prev, prevEmpty>>

cliVars == <<cli, cliPc, force, sawExisting, answers, exitCode>>

nameVars == <<name, rejected, derived, origin>>

renderVars == <<template, extra, rendered>>

vars == <<config, fs, prior, pc, idx, invoked, wlog, run, prev, prevEmpty,
          cli, cliPc, force, sawExisting, answers, exitCode,
          name, rejected, derived, origin, template, extra, rendered>>

\* ------------------------------------------------------------------------
\* Template text and str.format (generators/base_generator.py)
\* ------------------------------------------------------------------------

\* A text is its body (tags) and the set of replacement fields {name} that
\* str.format would look up in it.
Text(body, fields) == [body |-> body, fields |-> fields]

Lit(tag) == Text(<<tag>>, {})

Empty == Text(<<>>, {})

\* the bodies of the values that replace a field of the template, in
\* keyword order; a keyword the template does not mention is ignored
RECURSIVE JoinBodies(_, _)
JoinBodies(fields, kw) ==
    IF kw = <<>> THEN <<>>
    ELSE (IF Head(kw)[1] \in fields THEN Head(kw)[2].body ELSE <<>>)
         \o JoinBodies(fields, Tail(kw))

Keys(kw) == {kw[i][1] : i \in 1..Len(kw)}

UsedFields(t, kw) ==
    UNION {kw[i][2].fields : i \in {j \in 1..Len(kw) : kw[j][1] \in t.fields}}

\* template.format(**kw): a field that kw does not name raises KeyError;
\* the substituted values are inserted verbatim, so the fields they contain
\* are the fields of the result.
Format(t, kw) ==
    IF t.fields \subseteq Keys(kw)
    THEN [ok |-> TRUE, text |-> Text(t.body \o JoinBodies(t.fields, kw), UsedFields(t, kw))]
    ELSE [ok |-> FALSE, text |-> Empty]

get_template_vars ==
    {"project_name", "project_name_snake", "project_name_pascal", "is_async",
     "is_advanced", "database_type", "auth_type", "python_version",
     "include_docker", "include_tests", "include_docs", "include_monitoring",
     "include_celery"}

\* BaseGenerator.format_template: template.format(**self.get_template_vars())
format_template(t) ==
    IF t.fields \subseteq get_template_vars
    THEN [ok |-> TRUE, text |-> Text(t.body, {})]
    ELSE [ok |-> FALSE, text |-> Empty]

\* two passes: format_template(template.format(**kw))
format_twice(t, kw) ==
    LET first == Format(t, kw)
    IN IF first.ok THEN format_template(first.text) ELSE first

Tag(b, s) == IF b THEN <<s>> ELSE <<>>

Style(c) == IF c.is_async THEN "async" ELSE "sync"


Ok(t) == [ok |-> TRUE, text |-> t]

\* A generate() body is a list of steps "render a template, then write it to
\* a path"; a render that raises ends the body before its write.
RECURSIVE Emit(_)
Emit(steps) ==
    IF steps = <<>> THEN [writes |-> <<>>, ok |-> TRUE]
    ELSE IF ~Head(steps)[2].ok THEN [writes |-> <<>>, ok |-> FALSE]
    ELSE LET rest == Emit(Tail(steps))
         IN [writes |-> <<<<Head(steps)[1], Head(steps)[2].text.body>>>> \o rest.writes,
             ok |-> rest.ok]

When(b, steps) == IF b THEN steps ELSE <<>>

IsItemType(c) == c.project_type \in {"crud", "api"}

IsRelational(c) == c.database_type \in {"sqlite", "postgresql", "mysql"}

\* ------------------------------------------------------------------------
\* Generators whose modules are imported by generators/file_generators
\* /__init__.py (requirements, main app, database)
\* ------------------------------------------------------------------------

RequirementsGenerator_generate(c) ==
    Emit(<< <<<<"requirements.txt">>, Ok(Lit("requirements"))>> >>)

MainAppGenerator_generate(c) ==
    Emit(<< <<<<"app", "main.py">>, Ok(Lit("main"))>> >>)

DatabaseGenerator_generate(c) ==
    Emit(<< <<<<"app", "db", "database.py">>, Ok(Lit("database"))>>,
            <<<<"app", "db", "base.py">>, Ok(Lit("base"))>> >>)

\* ------------------------------------------------------------------------
\* EnvironmentGenerator
\* ------------------------------------------------------------------------

EnvironmentGenerator_additional(c) ==
    Tag(c.include_monitoring, "env-monitoring") \o Tag(c.include_celery, "env-celery")

\* variant: the rendered text carries a stamp that differs from run to run
EnvironmentGenerator_env_stamped(c, kind) ==
    Text(<<kind, c.database_type, c.auth_type, ToString(run)>>
         \o EnvironmentGenerator_additional(c), {})

EnvironmentGenerator_env(c, kind) ==
    Text(<<kind, c.database_type, c.auth_type>> \o EnvironmentGenerator_additional(c), {})

EnvironmentGenerator_generate(c) ==
    Emit(<< <<<<".env">>, Ok(EnvironmentGenerator_env(c, "env"))>>,
            <<<<".env.example">>, Ok(EnvironmentGenerator_env(c, "env-example"))>> >>)

\* ------------------------------------------------------------------------
\* ConfigGenerator
\* ------------------------------------------------------------------------

ConfigGenerator_additional_settings(c) ==
    Text(Tag(c.include_monitoring, "settings-monitoring")
         \o Tag(c.include_celery, "settings-celery")
         \o Tag(c.database_type = "redis", "settings-redis"), {})

ConfigGenerator_template(c) ==
    format_twice(Text(<<"config">>, {"database_url", "additional_settings", "project_name"}),
                 << <<"database_url", Lit(c.database_type)>>,
                    <<"additional_settings", ConfigGenerator_additional_settings(c)>>,
                    <<"project_name", Lit("project_name")>> >>)

ConfigGenerator_generate(c) ==
    Emit(<< <<<<"app", "core", "config.py">>, ConfigGenerator_template(c)>> >>)

\* ------------------------------------------------------------------------
\* AuthGenerator
\* ------------------------------------------------------------------------

AuthGenerator_should_generate(c) == c.auth_type # "none"

AuthGenerator_jwt_template(c) ==
    format_twice(Text(<<"security-jwt">>, {"async_user_functions", "async_current_user"}),
                 << <<"async_user_functions", Text(Tag(c.is_async, "async-user-functions"), {})>>,
                    <<"sync_user_functions", Text(Tag(~c.is_async, "sync-user-functions"), {})>>,
                    <<"async_current_user", Text(Tag(c.is_async, "async-current-user"), {})>>,
                    <<"sync_current_user", Text(Tag(~c.is_async, "sync-current-user"), {})>> >>)

\* variant: the OAUTH2 and API_KEY branches are exchanged
AuthGenerator_security_template_swapped(c) ==
    IF c.auth_type = "jwt" THEN AuthGenerator_jwt_template(c)
    ELSE IF c.auth_type = "oauth2" THEN format_template(Lit("security-api-key"))
    ELSE IF c.auth_type = "api-key" THEN format_template(Lit("security-oauth2"))
    ELSE Ok(Empty)

AuthGenerator_security_template(c) ==
    IF c.auth_type = "jwt" THEN AuthGenerator_jwt_template(c)
    ELSE IF c.auth_type = "oauth2" THEN format_template(Lit("security-oauth2"))
    ELSE IF c.auth_type = "api-key" THEN format_template(Lit("security-api-key"))
    ELSE Ok(Empty)

AuthGenerator_generate(c) ==
    Emit(<< <<<<"app", "core", "security.py">>, AuthGenerator_security_template(c)>> >>
         \o When(c.auth_type \in {"jwt", "oauth2"},
                 << <<<<"app", "models", "auth.py">>, format_template(Lit("auth-models"))>>,
                    <<<<"app", "schemas", "auth.py">>, format_template(Lit("auth-schemas"))>> >>))

\* ------------------------------------------------------------------------
\* APIGenerator
\* ------------------------------------------------------------------------

APIGenerator_endpoints_template(c) ==
    Format(Text(<<"endpoints">>,
                {"project_name", "auth_imports", "auth_endpoints_include",
                 "database_imports", "model_imports", "schema_imports",
                 "crud_endpoints", "project_specific_endpoints"}),
           << <<"project_name", Lit("project_name")>>,
              <<"auth_imports", Text(Tag(c.auth_type # "none", "auth-imports"), {})>>,
              <<"auth_endpoints_include", Text(Tag(c.auth_type # "none", "auth-router"), {})>>,
              <<"database_imports", Lit("database-imports")>>,
              <<"model_imports", Text(Tag(IsItemType(c), "item-model-import"), {})>>,
              <<"schema_imports", Text(Tag(IsItemType(c), "item-schema-import"), {})>>,
              <<"crud_endpoints", Text(Tag(IsItemType(c), "crud-endpoints-" \o Style(c)), {})>>,
              <<"project_specific_endpoints",
                Text(Tag(c.project_type = "ml-api", "ml-endpoints")
                     \o Tag(c.project_type = "microservice", "microservice-endpoints"), {})>> >>)

APIGenerator_generate(c) ==
    Emit(<< <<<<"app", "api", "v1", "endpoints.py">>,
              APIGenerator_endpoints_template(c)>> >>
         \o When(c.auth_type # "none",
                 << <<<<"app", "api", "v1", "auth.py">>, Ok(Lit("auth-endpoints"))>> >>))

\* ------------------------------------------------------------------------
\* ModelsGenerator, SchemasGenerator, ServicesGenerator
\* ------------------------------------------------------------------------

\* variant: the item model gets an owner column whenever authentication is on
ModelsGenerator_item_model_template_owned(c) ==
    IF IsRelational(c)
    THEN format_template(Text(<<"item-model-sqlalchemy">>
                              \o Tag(c.auth_type # "none", "owner-column"), {}))
    ELSE IF c.database_type = "mongodb"
         THEN format_template(Lit("item-model-mongodb-" \o Style(c)))
    ELSE Ok(Empty)

ModelsGenerator_item_model_template(c) ==
    IF IsRelational(c) THEN format_template(Lit("item-model-sqlalchemy"))
    ELSE IF c.database_type = "mongodb"
         THEN format_template(Lit("item-model-mongodb-" \o Style(c)))
    ELSE Ok(Empty)

\* variant: the item model is written for every project type but microservice
ModelsGenerator_generate_item_unless_microservice(c) ==
    Emit(When(c.project_type # "microservice",
              << <<<<"app", "models", "item.py">>, ModelsGenerator_item_model_template(c)>> >>)
         \o When(c.project_type = "ml-api",
                 << <<<<"app", "models", "prediction.py">>,
                      format_template(Lit("prediction-model"))>> >>))

ModelsGenerator_generate(c) ==
    Emit(When(IsItemType(c),
              << <<<<"app", "models", "item.py">>, ModelsGenerator_item_model_template(c)>> >>)
         \o When(c.project_type = "ml-api",
                 << <<<<"app", "models", "prediction.py">>,
                      format_template(Lit("prediction-model"))>> >>))

SchemasGenerator_generate(c) ==
    Emit(When(IsItemType(c),
              << <<<<"app", "schemas", "item.py">>, format_template(Lit("item-schema"))>> >>)
         \o When(c.project_type = "ml-api",
                 << <<<<"app", "schemas", "prediction.py">>,
                      format_template(Lit("prediction-schema"))>> >>)
         \o << <<<<"app", "schemas", "common.py">>, format_template(Lit("common-schema"))>> >>)

ServicesGenerator_item_service_template(c) ==
    IF IsRelational(c) THEN format_template(Lit("item-service-sqlalchemy-" \o Style(c)))
    ELSE IF c.database_type = "mongodb"
         THEN format_template(Lit("item-service-mongodb-" \o Style(c)))
    ELSE Ok(Empty)

ServicesGenerator_generate(c) ==
    Emit(When(IsItemType(c),
              << <<<<"app", "services", "item_service.py">>,
                   ServicesGenerator_item_service_template(c)>> >>)
         \o When(c.project_type = "ml-api",
                 << <<<<"app", "services", "prediction_service.py">>,
                      format_template(Lit("prediction-service"))>> >>)
         \o When(c.project_type = "microservice",
                 << <<<<"app", "services", "processing_service.py">>,
                      format_template(Lit("processing-service"))>> >>))

\* ------------------------------------------------------------------------
\* UtilsGenerator
\* ------------------------------------------------------------------------

UtilsGenerator_generate(c) ==
    Emit(<< <<<<"app", "utils", "helpers.py">>, Ok(Lit("helpers"))>>,
            <<<<"app", "utils", "logging.py">>,
              format_template(Text(<<"logging">>, {"project_name_snake"}))>>,
            <<<<"app", "utils", "validation.py">>, Ok(Lit("validation"))>> >>)


\* ------------------------------------------------------------------------
\* DockerGenerator
\* ------------------------------------------------------------------------

\* variant: the include_docker gate is missing
DockerGenerator_should_generate_always(c) == TRUE

DockerGenerator_should_generate(c) == c.include_docker

\* database_url, database_service, database_service_definition, volumes
DockerGenerator_database_config(c) ==
    IF c.database_type = "sqlite"
    THEN <<Lit("url-sqlite"), Empty, Empty, Empty>>
    ELSE <<Text(<<"url-" \o c.database_type>>,
                IF c.database_type = "redis" THEN {} ELSE {"project_name_snake"}),
           Lit("depends-" \o c.database_type),
           Text(<<"service-" \o c.database_type>>, {"project_name_snake"}),
           Lit("volume-" \o c.database_type)>>

DockerGenerator_additional_services(c) ==
    Text(Tag(c.include_celery, "celery-worker-and-beat")
         \o Tag(c.include_monitoring, "prometheus-and-grafana"),
         (IF c.include_celery THEN {"database_url", "project_name_snake"} ELSE {})
         \cup (IF c.include_monitoring THEN {"project_name_snake"} ELSE {}))

DockerGenerator_compose_template(c) ==
    LET db == DockerGenerator_database_config(c)
    IN format_twice(
         Text(<<"compose">>,
              {"database_url", "database_service", "project_name_snake",
               "database_service_definition", "additional_services", "volumes"}),
         << <<"project_name_snake", Lit("project_name_snake")>>,
            <<"database_url", db[1]>>,
            <<"database_service", db[2]>>,
            <<"database_service_definition", db[3]>>,
            <<"additional_services", DockerGenerator_additional_services(c)>>,
            <<"volumes", db[4]>> >>)

DockerGenerator_generate(c) ==
    Emit(<< <<<<"Dockerfile">>, format_template(Text(<<"dockerfile">>, {"python_version"}))>>,
            <<<<"docker-compose.yml">>, DockerGenerator_compose_template(c)>>,
            <<<<".dockerignore">>, Ok(Lit("dockerignore"))>> >>)

\* ------------------------------------------------------------------------
\* TestsGenerator
\* ------------------------------------------------------------------------

TestsGenerator_should_generate(c) == c.include_tests

TestsGenerator_api_test_template(c) ==
    Format(Text(<<"test-endpoints">>, {"project_name", "crud_tests", "project_specific_tests"}),
           << <<"project_name", Lit("project_name")>>,
              <<"crud_tests",
                Text(Tag(IsItemType(c), "crud-tests")
                     \o Tag(IsItemType(c) /\ c.auth_type # "none", "auth-headers"), {})>>,
              <<"project_specific_tests",
                Text(Tag(c.project_type = "ml-api", "ml-tests")
                     \o Tag(c.project_type = "ml-api" /\ c.auth_type # "none", "auth-headers"),
                     {})>> >>)

TestsGenerator_generate(c) ==
    Emit(<< <<<<"tests", "conftest.py">>,
              Ok(Text(<<"conftest">> \o Tag(c.auth_type # "none", "auth-fixtures"), {}))>>,
            <<<<"tests", "api", "test_endpoints.py">>, TestsGenerator_api_test_template(c)>> >>
         \o When(IsItemType(c),
                 << <<<<"tests", "services", "test_item_service.py">>,
                      format_template(Lit("test-item-service-" \o Style(c)))>> >>)
         \o When(c.auth_type # "none",
                 << <<<<"tests", "api", "test_auth.py">>, format_template(Lit("test-auth"))>> >>)
         \o << <<<<"pytest.ini">>, Ok(Lit("pytest-ini"))>> >>)

\* ------------------------------------------------------------------------
\* DocsGenerator
\* ------------------------------------------------------------------------

DocsGenerator_should_generate(c) == c.include_docs

DocsGenerator_api_docs_template(c) ==
    Format(Text(<<"api-docs">>,
                {"project_name", "auth_section", "crud_endpoints",
                 "project_specific_endpoints", "project_name_pascal"}),
           << <<"project_name", Lit("project_name")>>,
              <<"auth_section", Lit("auth-docs-" \o c.auth_type)>>,
              <<"crud_endpoints", Text(Tag(IsItemType(c), "crud-docs"), {})>>,
              <<"project_specific_endpoints",
                Text(Tag(c.project_type = "ml-api", "ml-docs"), {})>>,
              <<"project_name_pascal", Lit("project_name_pascal")>> >>)

DocsGenerator_deployment_docs_template(c) ==
    format_twice(
        Text(<<"deployment-docs">>,
             {"project_name_pascal", "project_name_snake", "database_setup",
              "additional_config", "backup_instructions", "python_version"}),
        << <<"project_name", Lit("project_name")>>,
           <<"project_name_pascal", Lit("project_name_pascal")>>,
           <<"project_name_snake", Lit("project_name_snake")>>,
           <<"database_setup",
             Text(<<"db-setup-" \o c.database_type>>,
                  IF c.database_type \in {"postgresql", "mysql", "mongodb"}
                  THEN {"project_name_snake"} ELSE {})>>,
           <<"additional_config",
             Text(Tag(c.include_celery, "celery-config")
                  \o Tag(c.include_monitoring, "monitoring-config"), {})>>,
           <<"backup_instructions",
             IF c.database_type \in {"postgresql", "mysql", "mongodb"}
             THEN Text(<<"backup-" \o c.database_type>>, {"project_name_snake"})
             ELSE Lit("backup-files")>>,
           <<"python_version", Lit("python_version")>> >>)

DocsGenerator_development_docs_template(c) ==
    format_twice(
        Text(<<"development-docs">>,
             {"project_name_pascal", "project_name_snake", "python_version",
              "additional_prereqs", "dev_database_setup", "migration_section",
              "background_tasks_section"}),
        << <<"project_name", Lit("project_name")>>,
           <<"project_name_pascal", Lit("project_name_pascal")>>,
           <<"project_name_snake", Lit("project_name_snake")>>,
           <<"python_version", Lit("python_version")>>,
           <<"additional_prereqs",
             Text(Tag(c.include_docker, "prereq-docker")
                  \o Tag(c.database_type # "sqlite", "prereq-database"), {})>>,
           <<"dev_database_setup", Lit("db-setup-" \o c.database_type)>>,
           <<"migration_section",
             Lit(IF c.is_advanced THEN "migrations-alembic" ELSE "migrations-basic")>>,
           <<"background_tasks_section",
             Lit(IF c.include_celery THEN "tasks-celery" ELSE "tasks-none")>> >>)

DocsGenerator_config_docs_template(c) ==
    Format(Text(<<"configuration-docs">>,
                {"auth_config", "auth_security", "additional_settings",
                 "monitoring_config", "project_name", "project_name_pascal"}),
           << <<"auth_config", Text(Tag(c.auth_type # "none", "auth-config"), {})>>,
              <<"auth_security", Text(Tag(c.auth_type # "none", "auth-security"), {})>>,
              <<"additional_settings",
                Text(Tag(c.include_monitoring, "settings-monitoring")
                     \o Tag(c.include_celery, "settings-celery"), {})>>,
              <<"monitoring_config", Text(Tag(c.include_monitoring, "monitoring-config"), {})>>,
              <<"project_name", Lit("project_name")>>,
              <<"project_name_pascal", Lit("project_name_pascal")>>,
              <<"python_version", Lit("python_version")>>,
              <<"project_name_snake", Lit("project_name_snake")>> >>)

DocsGenerator_generate(c) ==
    Emit(<< <<<<"docs", "api.md">>, DocsGenerator_api_docs_template(c)>>,
            <<<<"docs", "deployment.md">>, DocsGenerator_deployment_docs_template(c)>>,
            <<<<"docs", "development.md">>, DocsGenerator_development_docs_template(c)>>,
            <<<<"docs", "configuration.md">>, DocsGenerator_config_docs_template(c)>>,
            <<<<"CONTRIBUTING.md">>,
              format_template(Text(<<"contributing">>, {"project_name_pascal"}))>> >>)

\* ------------------------------------------------------------------------
\* MonitoringGenerator
\* ------------------------------------------------------------------------

MonitoringGenerator_should_generate(c) == c.include_monitoring

MonitoringGenerator_generate(c) ==
    Emit(<< <<<<"monitoring", "prometheus.yml">>,
              format_template(Text(<<"prometheus">>,
                                   {"project_name_pascal", "project_name_snake"}))>>,
            <<<<"monitoring", "grafana", "dashboard.json">>,
              format_template(Text(<<"grafana-dashboard">>,
                                   {"project_name_pascal", "project_name_snake"}))>>,
            <<<<"app", "utils", "monitoring.py">>,
              format_template(Lit("monitoring-middleware"))>> >>)

\* ------------------------------------------------------------------------
\* CeleryGenerator
\* ------------------------------------------------------------------------

CeleryGenerator_should_generate(c) == c.include_celery

CeleryGenerator_celery_app_template(c) ==
    format_twice(Text(<<"celery-app">>, {"beat_schedule", "project_name_snake"}),
                 << <<"beat_schedule",
                      Text(<<IF c.is_advanced THEN "beat-schedule" ELSE "beat-comment">>,
                           IF c.is_advanced THEN {"cleanup-expired-tokens"} ELSE {})>> >>)

CeleryGenerator_tasks_template(c) ==
    format_twice(Text(<<"tasks">>,
                      {"additional_imports", "ml_tasks", "additional_tasks",
                       "project_name_snake"}),
                 << <<"additional_imports",
                      Text(Tag(c.project_type = "ml-api", "ml-imports"), {})>>,
                    <<"ml_tasks",
                      Text(Tag(c.project_type = "ml-api", "ml-tasks"),
                           IF c.project_type = "ml-api" THEN {"current"} ELSE {})>>,
                    <<"additional_tasks", Lit("additional-tasks")>> >>)

CeleryGenerator_beat_config(c) ==
    format_twice(Text(<<"beat-config">>, {"ml_schedule", "custom_schedule"}),
                 << <<"ml_schedule",
                      Text(Tag(c.project_type = "ml-api", "ml-schedule"),
                           IF c.project_type = "ml-api" THEN {"task"} ELSE {})>>,
                    <<"custom_schedule", Text(<<"custom-schedule">>, {"task"})>> >>)

CeleryGenerator_generate(c) ==
    Emit(<< <<<<"app", "tasks", "celery_app.py">>, CeleryGenerator_celery_app_template(c)>>,
            <<<<"app", "tasks", "tasks.py">>, CeleryGenerator_tasks_template(c)>>,
            <<<<"scripts", "start_worker.py">>, format_template(Lit("start-worker"))>> >>
         \o When(c.is_advanced,
                 << <<<<"app", "tasks", "beat_config.py">>, CeleryGenerator_beat_config(c)>> >>))


\* ------------------------------------------------------------------------
\* The file system under config.path
\* ------------------------------------------------------------------------

NoFiles == [p \in {} |-> <<>>]

Absent == [kind |-> "absent", dirs |-> {}, files |-> NoFiles]

Prefixes(path) == {SubSeq(path, 1, n) : n \in 0..(Len(path) - 1)}

Parent(path) == SubSeq(path, 1, Len(path) - 1)

\* os.makedirs(directory, exist_ok=True)
makedirs(tree, directory) ==
    [kind |-> "dir", dirs |-> tree.dirs \cup Prefixes(directory) \cup {directory},
     files |-> tree.files]

RECURSIVE makedirs_all(_, _)
makedirs_all(tree, directories) ==
    IF directories = <<>> THEN tree
    ELSE makedirs_all(makedirs(tree, Head(directories)), Tail(directories))

\* variant: the existing tree is left in place
rmtree_keep(tree) == tree

\* shutil.rmtree(path): removes a directory tree, raises on a regular file
rmtree(tree) == Absent

\* variant: the file is opened without making its parent directories
write_file_no_parents(tree, path, content) ==
    [kind |-> "dir", dirs |-> tree.dirs,
     files |-> [p \in DOMAIN tree.files \cup {path} |->
                   IF p = path THEN content ELSE tree.files[p]]]

\* BaseGenerator.write_file: parent.mkdir(parents=True, exist_ok=True), then
\* open(file_path, "w") and write
write_file(tree, path, content) ==
    [kind |-> "dir", dirs |-> tree.dirs \cup Prefixes(path),
     files |-> [p \in DOMAIN tree.files \cup {path} |->
                   IF p = path THEN content ELSE tree.files[p]]]

RECURSIVE write_all(_, _)
write_all(tree, writes) ==
    IF writes = <<>> THEN tree
    ELSE write_all(write_file(tree, Head(writes)[1], Head(writes)[2]), Tail(writes))

\* Path(init_file).touch(): creates an empty file, keeps an existing one;
\* raises FileNotFoundError when the parent directory is missing
touch_ok(tree, path) == Parent(path) \in tree.dirs

touch(tree, path) ==
    IF path \in DOMAIN tree.files THEN tree
    ELSE [tree EXCEPT !.files = [p \in DOMAIN tree.files \cup {path} |->
                                  IF p = path THEN <<>> ELSE tree.files[p]]]

RECURSIVE touch_all(_, _)
touch_all(tree, paths) ==
    IF paths = <<>> THEN tree
    ELSE touch_all(touch(tree, Head(paths)), Tail(paths))

\* ------------------------------------------------------------------------
\* ProjectGenerator (generators/project_generator.py)
\* ------------------------------------------------------------------------

\* variant: the optional generators are registered first
_setup_generators_optional_first(c) ==
    (IF c.include_monitoring THEN <<"monitoring">> ELSE <<>>)
    \o (IF c.include_celery THEN <<"celery">> ELSE <<>>)
    \o <<"requirements", "environment", "main", "config", "database", "auth",
         "api", "models", "schemas", "services", "utils", "docker", "tests",
         "docs">>

\* the insertion order of the self.generators dict
_setup_generators(c) ==
    <<"requirements", "environment", "main", "config", "database", "auth",
      "api", "models", "schemas", "services", "utils", "docker", "tests",
      "docs">>
    \o (IF c.include_monitoring THEN <<"monitoring">> ELSE <<>>)
    \o (IF c.include_celery THEN <<"celery">> ELSE <<>>)

should_generate(g, c) ==
    CASE g = "auth" -> AuthGenerator_should_generate(c)
      [] g = "docker" -> DockerGenerator_should_generate(c)
      [] g = "tests" -> TestsGenerator_should_generate(c)
      [] g = "docs" -> DocsGenerator_should_generate(c)
      [] g = "monitoring" -> MonitoringGenerator_should_generate(c)
      [] g = "celery" -> CeleryGenerator_should_generate(c)
      [] OTHER -> TRUE

generate_of(g, c) ==
    CASE g = "requirements" -> RequirementsGenerator_generate(c)
      [] g = "environment" -> EnvironmentGenerator_generate(c)
      [] g = "main" -> MainAppGenerator_generate(c)
      [] g = "config" -> ConfigGenerator_generate(c)
      [] g = "database" -> DatabaseGenerator_generate(c)
      [] g = "auth" -> AuthGenerator_generate(c)
      [] g = "api" -> APIGenerator_generate(c)
      [] g = "models" -> ModelsGenerator_generate(c)
      [] g = "schemas" -> SchemasGenerator_generate(c)
      [] g = "services" -> ServicesGenerator_generate(c)
      [] g = "utils" -> UtilsGenerator_generate(c)
      [] g = "docker" -> DockerGenerator_generate(c)
      [] g = "tests" -> TestsGenerator_generate(c)
      [] g = "docs" -> DocsGenerator_generate(c)
      [] g = "monitoring" -> MonitoringGenerator_generate(c)
      [] g = "celery" -> CeleryGenerator_generate(c)

\* the directories list of _create_directory_structure
_create_directory_structure_dirs(c) ==
    << <<>>, <<"app">>, <<"app", "api">>, <<"app", "api", "v1">>,
       <<"app", "core">>, <<"app", "db">>, <<"app", "models">>,
       <<"app", "schemas">>, <<"app", "services">>, <<"app", "utils">> >>
    \o (IF c.include_tests
        THEN << <<"tests">>, <<"tests", "api">>, <<"tests", "services">> >>
        ELSE <<>>)
    \o (IF c.include_docs THEN << <<"docs">> >> ELSE <<>>)
    \o (IF c.include_celery THEN << <<"app", "tasks">> >> ELSE <<>>)

\* variant: only the fixed application packages receive a marker
_create_init_files_paths_fixed_only(c) ==
    << <<"app", "__init__.py">>, <<"app", "api", "__init__.py">>,
       <<"app", "api", "v1", "__init__.py">>, <<"app", "core", "__init__.py">>,
       <<"app", "db", "__init__.py">>, <<"app", "models", "__init__.py">>,
       <<"app", "schemas", "__init__.py">>, <<"app", "services", "__init__.py">>,
       <<"app", "utils", "__init__.py">> >>

\* the init_files list of _create_init_files
_create_init_files_paths(c) ==
    << <<"app", "__init__.py">>, <<"app", "api", "__init__.py">>,
       <<"app", "api", "v1", "__init__.py">>, <<"app", "core", "__init__.py">>,
       <<"app", "db", "__init__.py">>, <<"app", "models", "__init__.py">>,
       <<"app", "schemas", "__init__.py">>, <<"app", "services", "__init__.py">>,
       <<"app", "utils", "__init__.py">> >>
    \o (IF c.include_tests
        THEN << <<"tests", "__init__.py">>, <<"tests", "api", "__init__.py">>,
                <<"tests", "services", "__init__.py">> >>
        ELSE <<>>)
    \o (IF c.include_celery THEN << <<"app", "tasks", "__init__.py">> >> ELSE <<>>)

\* the three TemplateManager templates, each a fixed text of the configuration
TemplateManager_get_readme_template(c) == <<"readme">>

TemplateManager_get_gitignore_template(c) == <<"gitignore">>

TemplateManager_get_env_template(c) == <<"env-template">>

\* variant: the environment template is written to .env.example
_post_generation_writes_env_example(c) ==
    << <<<<"README.md">>, TemplateManager_get_readme_template(c)>>,
       <<<<".gitignore">>, TemplateManager_get_gitignore_template(c)>>,
       <<<<".env.example">>, TemplateManager_get_env_template(c)>> >>

\* _generate_readme, _generate_gitignore, _generate_env_template, in call order
_post_generation_writes(c) ==
    << <<<<"README.md">>, TemplateManager_get_readme_template(c)>>,
       <<<<".gitignore">>, TemplateManager_get_gitignore_template(c)>>,
       <<<<".env.template">>, TemplateManager_get_env_template(c)>> >>

\* what ProjectGenerator.generate hands back to its caller as the list of
\* skipped feature areas: the method has no return statement and keeps no
\* record of the generators it passed over
generate_returns(c) == <<>>

\* variant: the post-generation setup is called before _generate_files
generate_phases_finalize_first == <<"scaffold", "finalize", "generate">>

\* the three calls of ProjectGenerator.generate, in order
generate_phases == <<"scaffold", "generate", "finalize">>

PhaseAfter(p) ==
    LET i == CHOOSE k \in 1..Len(generate_phases) : generate_phases[k] = p
    IN IF i = Len(generate_phases) THEN "done" ELSE generate_phases[i + 1]

Range(seq) == {seq[i] : i \in 1..Len(seq)}


\* ------------------------------------------------------------------------
\* Project names and their case derivations
\* ------------------------------------------------------------------------

MaxNameLen == 3

\* a lower-case letter, an upper-case letter, the two separators, a blank and
\* a character outside the allowed set
NameChars == {"a", "B", "-", "_", " ", "!"}

\* what a caller or user can give as a project name
Names == UNION {[1..n -> NameChars] : n \in 0..MaxNameLen}

lower_char(ch) == CASE ch = "A" -> "a" [] ch = "B" -> "b" [] OTHER -> ch

upper_char(ch) == CASE ch = "a" -> "A" [] ch = "b" -> "B" [] OTHER -> ch

isalnum_char(ch) == ch \in {"a", "b", "A", "B"}

str_lower(s) == [i \in 1..Len(s) |-> lower_char(s[i])]

\* s.replace(old, new) for one-character old and new
str_replace(s, old, new) == [i \in 1..Len(s) |-> IF s[i] = old THEN new ELSE s[i]]

\* s.replace(old, '')
str_remove(s, old) ==
    LET keep(ch) == ch # old
    IN SelectSeq(s, keep)

\* s.isalnum(): false for the empty string
str_isalnum(s) == s # <<>> /\ \A i \in 1..Len(s) : isalnum_char(s[i])

\* s.capitalize(): first character upper-cased, the rest lower-cased
str_capitalize(s) ==
    [i \in 1..Len(s) |-> IF i = 1 THEN upper_char(s[i]) ELSE lower_char(s[i])]

\* s.strip() of blanks
RECURSIVE str_strip(_)
str_strip(s) ==
    IF s = <<>> THEN s
    ELSE IF s[1] = " " THEN str_strip(SubSeq(s, 2, Len(s)))
    ELSE IF s[Len(s)] = " " THEN str_strip(SubSeq(s, 1, Len(s) - 1))
    ELSE s

\* s.split(sep): the empty string gives one empty word
RECURSIVE str_split(_, _)
str_split(s, sep) ==
    IF \A i \in 1..Len(s) : s[i] # sep THEN <<s>>
    ELSE LET k == CHOOSE i \in 1..Len(s) :
                     s[i] = sep /\ \A j \in 1..(i - 1) : s[j] # sep
         IN <<SubSeq(s, 1, k - 1)>> \o str_split(SubSeq(s, k + 1, Len(s)), sep)

\* "".join(words)
RECURSIVE str_join(_)
str_join(words) ==
    IF words = <<>> THEN <<>> ELSE Head(words) \o str_join(Tail(words))

\* TemplateManager._to_snake_case
_to_snake_case(value) ==
    str_replace(str_replace(str_lower(value), "-", "_"), " ", "_")

\* TemplateManager._to_pascal_case
_to_pascal_case(value) ==
    LET words == str_split(str_replace(value, "-", "_"), "_")
    IN str_join([i \in 1..Len(words) |-> str_capitalize(words[i])])

\* TemplateManager._to_kebab_case
_to_kebab_case(value) ==
    str_replace(str_replace(str_lower(value), "_", "-"), " ", "-")

\* project_name_snake computed locally in DockerGenerator._get_compose_template
DockerGenerator_project_name_snake(n) ==
    str_replace(str_replace(str_lower(n), "-", "_"), " ", "_")

\* variant: the generator bag lower-cases the name and keeps its hyphens
project_name_snake_lower_only(n) == str_lower(n)

\* project_name_snake of BaseGenerator.get_template_vars
project_name_snake(n) == str_replace(str_lower(n), "-", "_")

\* project_name_pascal of BaseGenerator.get_template_vars
project_name_pascal(n) ==
    LET words == str_split(str_replace(n, "-", "_"), "_")
    IN str_join([i \in 1..Len(words) |-> str_capitalize(words[i])])

\* the derived names both variable bags hold for a project name
case_derivations(n) ==
    [tm_snake |-> _to_snake_case(n), tm_pascal |-> _to_pascal_case(n),
     tm_kebab |-> _to_kebab_case(n), base_snake |-> project_name_snake(n),
     base_pascal |-> project_name_pascal(n)]

\* the two checks of StartFastCLI.get_project_name
get_project_name_accepts(n) ==
    /\ n # <<>>
    /\ str_isalnum(str_remove(str_remove(n, "_"), "-"))

\* the name the engine specifications run with
DefaultName == <<"a", "-", "B">>

NoDerived == <<>>

\* no render call is pending
RenderInit ==
    /\ template = Empty
    /\ extra = <<>>
    /\ rendered = <<>>

NameInit ==
    /\ name = DefaultName
    /\ rejected = FALSE
    /\ derived = NoDerived
    /\ origin = [via |-> "input", of |-> DefaultName]

\* ------------------------------------------------------------------------
\* Targets a run may find at config.path
\* ------------------------------------------------------------------------

Stale == <<"stale">>

StaleTree ==
    [kind |-> "dir",
     dirs |-> {<<>>, <<"app">>, <<"app", "core">>, <<"tests">>, <<"monitoring">>},
     files |-> [p \in {<<"old.txt">>, <<"README.md">>, <<"Dockerfile">>,
                       <<"app", "core", "security.py">>,
                       <<"tests", "conftest.py">>,
                       <<"monitoring", "prometheus.yml">>} |-> Stale]]

RegularFile == [kind |-> "file", dirs |-> {}, files |-> NoFiles]

EmptyDir == [kind |-> "dir", dirs |-> {<<>>}, files |-> NoFiles]

PriorTargets == {Absent, StaleTree, RegularFile}

IsEmptyTarget(t) == t.kind = "absent" \/ t = EmptyDir

\* ------------------------------------------------------------------------
\* ProjectGenerator.generate
\* ------------------------------------------------------------------------

Generators == _setup_generators(config)

Logged(by, writes) == [i \in 1..Len(writes) |-> <<by, writes[i][1]>>]

\* _create_directory_structure: rmtree of an existing target, then makedirs
\* of every listed directory
CreateDirectoryStructure ==
    /\ pc = "scaffold"
    /\ IF fs.kind = "file"
       THEN /\ pc' = "failed"
            /\ fs' = fs
       ELSE /\ fs' = makedirs_all(IF fs.kind # "absent" THEN rmtree(fs) ELSE fs,
                                  _create_directory_structure_dirs(config))
            /\ pc' = PhaseAfter("scaffold")
    /\ UNCHANGED <<nameVars, renderVars, config, prior, idx, invoked, wlog, rerunVars, cliVars>>

\* variant: the loop catches the exception of a generator and goes on
loop_next_swallow(ok, i, n) ==
    IF i = n THEN <<i + 1, PhaseAfter("generate")>> ELSE <<i + 1, "generate">>

\* where the loop of _generate_files stands after the generator at position
\* i of n was handled: an exception of generate() leaves the loop and
\* ProjectGenerator.generate, the end of the loop returns to generate()
loop_next(ok, i, n) ==
    IF ~ok THEN <<i, "failed">>
    ELSE IF i = n THEN <<i + 1, PhaseAfter("generate")>>
    ELSE <<i + 1, "generate">>

\* variant: the tests generator switches the shared configuration to async
generator_leaves_config_forcing_async(g, c) ==
    IF g = "tests" THEN [c EXCEPT !.is_async = TRUE] ELSE c

\* self.config once generator g has run: every generator holds the caller's
\* ProjectConfig object and assigns to none of its fields
generator_leaves_config(g, c) == c

\* one iteration of the loop of _generate_files
GenerateFiles ==
    /\ pc = "generate"
    /\ idx <= Len(Generators)
    /\ LET g == Generators[idx]
           r == generate_of(g, config)
       IN IF should_generate(g, config)
          THEN /\ invoked' = Append(invoked, g)
               /\ config' = generator_leaves_config(g, config)
               /\ fs' = write_all(fs, r.writes)
               /\ wlog' = wlog \o Logged(g, r.writes)
               /\ idx' = loop_next(r.ok, idx, Len(Generators))[1]
               /\ pc' = loop_next(r.ok, idx, Len(Generators))[2]
          ELSE /\ idx' = loop_next(TRUE, idx, Len(Generators))[1]
               /\ pc' = loop_next(TRUE, idx, Len(Generators))[2]
               /\ UNCHANGED <<config, invoked, fs, wlog>>
    /\ UNCHANGED <<nameVars, renderVars, prior, rerunVars, cliVars>>

\* _post_generation_setup: _create_init_files, _generate_readme,
\* _generate_gitignore, _generate_env_template
PostGenerationSetup ==
    /\ pc = "finalize"
    /\ LET inits == _create_init_files_paths(config)
           made == {i \in 1..Len(inits) : touch_ok(fs, inits[i])}
       IN IF made = 1..Len(inits)
          THEN /\ fs' = write_all(touch_all(fs, inits), _post_generation_writes(config))
               /\ wlog' = wlog \o [i \in 1..Len(inits) |-> <<"finalize", inits[i]>>]
                               \o Logged("finalize", _post_generation_writes(config))
               /\ pc' = PhaseAfter("finalize")
          ELSE /\ pc' = "failed"
               /\ UNCHANGED <<fs, wlog>>
    /\ UNCHANGED <<nameVars, renderVars, config, prior, idx, invoked, rerunVars, cliVars>>

EngineInit ==
    /\ config \in ProjectConfig
    /\ fs \in PriorTargets
    /\ prior = fs
    /\ idx = 1
    /\ invoked = <<>>
    /\ wlog = <<>>
    /\ run = 1
    /\ prev = Absent
    /\ prevEmpty = FALSE

Init ==
    /\ EngineInit
    /\ NameInit
    /\ RenderInit
    /\ pc = "scaffold"
    /\ cli = "none"
    /\ cliPc = "none"
    /\ force = FALSE
    /\ sawExisting = FALSE
    /\ answers = <<>>
    /\ exitCode = -1

Next == CreateDirectoryStructure \/ GenerateFiles \/ PostGenerationSetup

Spec == Init /\ [][Next]_vars


\* ------------------------------------------------------------------------
\* Command line front ends: startproject.py, fast_starter/cli.py and the
\* argument and interactive modes of startfast/cli.py
\* ------------------------------------------------------------------------

FrontEnds == {"startproject", "fast_starter", "startfast_args", "startfast_interactive"}

\* what the user can give to a confirmation prompt; "^C" is an interrupt
Answers(c) ==
    CASE c = "startproject" -> {"y", "Y", "n", "", "yes"}
      [] c = "fast_starter" -> {"y", "Y", "n", "", "yes", "^C"}
      [] OTHER -> {"y", "n", "", "^C"}

\* `os.path.exists(project_path) and not args.force`; get_project_path of the
\* interactive mode asks whenever the path exists
needs_confirmation(c, exists, forced) ==
    IF c = "startfast_interactive" THEN exists ELSE exists /\ ~forced

\* variant: only an explicit "n" cancels
is_affirmative_unless_n(c, prompt, a) == a # "n"

\* `confirm.lower() != "y"` cancels; Confirm.ask returns the default on an
\* empty answer (False for the overwrite prompt, True for the summary)
is_affirmative(c, prompt, a) ==
    IF c \in {"startproject", "fast_starter"} THEN a \in {"y", "Y"}
    ELSE a = "y" \/ (a = "" /\ prompt = "summary")

\* exit status of an interrupted prompt: fast_starter's create_project_config
\* exits 0, StartFastCLI.main exits 1
interrupt_status(c) == IF c = "fast_starter" THEN 0 ELSE 1

\* variant: the database is selected before the project type
interactive_config_steps_database_first ==
    <<"name", "check", "database", "project_type", "authentication", "advanced",
      "optional", "python_version", "summary">>

\* the prompts of StartFastCLI.interactive_config in call order: get_project_name,
\* get_project_path ("check"), select_project_type, select_database,
\* select_authentication, configure_advanced_options,
\* configure_optional_features, the Python version, show_configuration_summary
interactive_config_steps ==
    <<"name", "check", "project_type", "database", "authentication", "advanced",
      "optional", "python_version", "summary">>

StepAfter(s) ==
    LET i == CHOOSE k \in 1..Len(interactive_config_steps) :
                interactive_config_steps[k] = s
    IN interactive_config_steps[i + 1]

\* where a front end goes once the target path is settled: interactive mode
\* goes on with its selections, argument mode builds the configuration
after_path(c) == IF c = "startfast_interactive" THEN StepAfter("check") ELSE "run"

SelectionSteps ==
    {"project_type", "database", "authentication", "advanced", "optional",
     "python_version"}

\* one of the selection prompts between the path and the summary is answered
\* or interrupted
SelectOption ==
    /\ cli = "startfast_interactive"
    /\ cliPc \in SelectionSteps
    /\ \E a \in {"chosen", "^C"} :
         /\ answers' = Append(answers, <<cliPc, a>>)
         /\ IF a = "^C"
            THEN cliPc' = "exited" /\ exitCode' = interrupt_status(cli)
            ELSE cliPc' = StepAfter(cliPc) /\ exitCode' = exitCode
    /\ UNCHANGED <<nameVars, renderVars, engineVars, rerunVars, cli, force, sawExisting>>

\* the existence check of create_project_config, create_project_config_from_args
\* and get_project_path
CheckTarget ==
    /\ cliPc = "check"
    /\ sawExisting' = (fs.kind # "absent")
    /\ cliPc' = IF needs_confirmation(cli, fs.kind # "absent", force)
                THEN "overwrite_prompt"
                ELSE after_path(cli)
    /\ UNCHANGED <<nameVars, renderVars, engineVars, rerunVars, cli, force, answers, exitCode>>

\* the answer to "Directory already exists. Overwrite?"
AnswerOverwrite ==
    /\ cliPc = "overwrite_prompt"
    /\ \E a \in Answers(cli) :
         /\ answers' = Append(answers, <<"overwrite", a>>)
         /\ IF a = "^C"
            THEN cliPc' = "exited" /\ exitCode' = interrupt_status(cli)
            ELSE IF is_affirmative(cli, "overwrite", a)
            THEN /\ cliPc' = after_path(cli)
                 /\ exitCode' = exitCode
            ELSE cliPc' = "exited" /\ exitCode' = 0
    /\ UNCHANGED <<nameVars, renderVars, engineVars, rerunVars, cli, force, sawExisting>>

\* show_configuration_summary: "Ready to create your FastAPI project?"
AnswerSummary ==
    /\ cliPc = "summary"
    /\ \E a \in Answers(cli) :
         /\ answers' = Append(answers, <<"summary", a>>)
         /\ IF a = "^C"
            THEN cliPc' = "exited" /\ exitCode' = interrupt_status(cli)
            ELSE IF is_affirmative(cli, "summary", a)
            THEN cliPc' = "run" /\ exitCode' = exitCode
            ELSE cliPc' = "exited" /\ exitCode' = 0
    /\ UNCHANGED <<nameVars, renderVars, engineVars, rerunVars, cli, force, sawExisting>>

\* ProjectGenerator(config).generate() is entered
StartGenerate ==
    /\ cliPc = "run"
    /\ pc = "idle"
    /\ pc' = "scaffold"
    /\ cliPc' = "generating"
    /\ UNCHANGED <<nameVars, renderVars, config, fs, prior, idx, invoked, wlog, rerunVars,
                   cli, force, sawExisting, answers, exitCode>>

\* generate() returned (success message, status 0) or raised (status 1)
Finish ==
    /\ cliPc = "generating"
    /\ pc \in {"done", "failed"}
    /\ exitCode' = IF pc = "done" THEN 0 ELSE 1
    /\ cliPc' = "exited"
    /\ UNCHANGED <<nameVars, renderVars, engineVars, rerunVars, cli, force, sawExisting, answers>>

\* the argparse defaults, and the defaults with --celery
DefaultConfig ==
    [project_type |-> "api", database_type |-> "sqlite", auth_type |-> "jwt",
     is_async |-> TRUE, is_advanced |-> FALSE, include_docker |-> TRUE,
     include_tests |-> TRUE, include_docs |-> TRUE,
     include_monitoring |-> FALSE, include_celery |-> FALSE]

CLIConfigs == {DefaultConfig, [DefaultConfig EXCEPT !.include_celery = TRUE]}

InitCLI ==
    /\ EngineInit
    /\ NameInit
    /\ RenderInit
    /\ config \in CLIConfigs
    /\ pc = "idle"
    /\ cli \in FrontEnds
    /\ cliPc = "check"
    /\ force \in BOOLEAN
    /\ sawExisting = FALSE
    /\ answers = <<>>
    /\ exitCode = -1

NextCLI ==
    \/ CheckTarget \/ AnswerOverwrite \/ SelectOption \/ AnswerSummary \/ StartGenerate
    \/ CreateDirectoryStructure \/ GenerateFiles \/ PostGenerationSetup
    \/ Finish

SpecCLI == InitCLI /\ [][NextCLI]_vars

\* ------------------------------------------------------------------------
\* Successive runs against one target
\* ------------------------------------------------------------------------

\* a further run is started once the previous one has ended; in between the
\* user either leaves the tree in place or removes it
Rerun ==
    /\ cli = "none"
    /\ pc \in {"done", "failed"}
    /\ run < MaxRuns
    /\ run' = run + 1
    /\ prev' = fs
    /\ prevEmpty' = IsEmptyTarget(prior)
    /\ fs' \in {fs, Absent}
    /\ prior' = fs'
    /\ pc' = "scaffold"
    /\ idx' = 1
    /\ invoked' = <<>>
    /\ wlog' = <<>>
    /\ UNCHANGED <<nameVars, renderVars, config, cliVars>>

InitRerun ==
    /\ Init
    /\ IsEmptyTarget(fs)

NextRerun == Next \/ Rerun

SpecRerun == InitRerun /\ [][NextRerun]_vars


\* ------------------------------------------------------------------------
\* Routes by which a project name reaches ProjectConfig
\* ------------------------------------------------------------------------

\* the four front ends, and "none": a caller constructs ProjectConfig itself
Routes == FrontEnds \cup {"none"}

\* StartFastCLI.get_project_name: the prompt is repeated until the stripped
\* answer passes both checks
GetProjectName ==
    /\ cli = "startfast_interactive"
    /\ cliPc = "name"
    /\ \E typed \in Names :
         LET n == str_strip(typed)
         IN IF get_project_name_accepts(n)
            THEN /\ name' = n
                 /\ origin' = [via |-> "input", of |-> n]
                 /\ cliPc' = "check"
                 /\ rejected' = rejected
            ELSE /\ rejected' = TRUE
                 /\ UNCHANGED <<name, origin, cliPc>>
    /\ UNCHANGED <<renderVars, engineVars, rerunVars, cli, force, sawExisting, answers,
                   exitCode, derived>>

\* argument mode: create_project_config and create_project_config_from_args
\* pass args.name on as it is; only startfast refuses an empty name
TakeNameFromArgs ==
    /\ cli \in {"startproject", "fast_starter", "startfast_args"}
    /\ cliPc = "name"
    /\ IF cli = "startfast_args" /\ name = <<>>
       THEN /\ cliPc' = "exited"
            /\ exitCode' = 1
            /\ rejected' = TRUE
       ELSE /\ cliPc' = "check"
            /\ exitCode' = exitCode
            /\ rejected' = rejected
    /\ UNCHANGED <<renderVars, engineVars, rerunVars, cli, force, sawExisting, answers,
                   name, derived, origin>>

InitName ==
    /\ config = DefaultConfig
    /\ fs = Absent
    /\ prior = fs
    /\ idx = 1
    /\ invoked = <<>>
    /\ wlog = <<>>
    /\ run = 1
    /\ prev = Absent
    /\ prevEmpty = FALSE
    /\ cli \in Routes
    /\ pc = IF cli = "none" THEN "scaffold" ELSE "idle"
    /\ cliPc = IF cli = "none" THEN "none" ELSE "name"
    /\ force = FALSE
    /\ sawExisting = FALSE
    /\ answers = <<>>
    /\ exitCode = -1
    /\ name \in (IF cli = "startfast_interactive" THEN {<<>>} ELSE Names)
    /\ rejected = FALSE
    /\ derived = NoDerived
    /\ origin = [via |-> "input", of |-> name]
    /\ RenderInit

NextName ==
    \/ GetProjectName \/ TakeNameFromArgs
    \/ CheckTarget \/ SelectOption \/ AnswerSummary \/ StartGenerate
    \/ CreateDirectoryStructure \/ GenerateFiles \/ PostGenerationSetup
    \/ Finish

SpecName == InitName /\ [][NextName]_vars

\* ------------------------------------------------------------------------
\* Case derivations applied to their own results
\* ------------------------------------------------------------------------

\* get_template_vars computes the derived names of config.name
GetTemplateVars ==
    /\ derived = NoDerived
    /\ derived' = <<case_derivations(name)>>
    /\ UNCHANGED <<renderVars, engineVars, rerunVars, cliVars, name, rejected, origin>>

\* a derived name is used as the name of a further configuration
NameFromDerivation ==
    /\ derived # NoDerived
    /\ origin.via = "input"
    /\ \E k \in DOMAIN derived[1] :
         /\ name' = derived[1][k]
         /\ origin' = [via |-> k, of |-> name]
    /\ derived' = NoDerived
    /\ UNCHANGED <<renderVars, engineVars, rerunVars, cliVars, rejected>>

InitCase ==
    /\ config = DefaultConfig
    /\ fs = Absent
    /\ prior = fs
    /\ idx = 1
    /\ invoked = <<>>
    /\ wlog = <<>>
    /\ run = 1
    /\ prev = Absent
    /\ prevEmpty = FALSE
    /\ cli = "none"
    /\ pc = "idle"
    /\ cliPc = "none"
    /\ force = FALSE
    /\ sawExisting = FALSE
    /\ answers = <<>>
    /\ exitCode = -1
    /\ name \in Names
    /\ rejected = FALSE
    /\ derived = NoDerived
    /\ origin = [via |-> "input", of |-> name]
    /\ RenderInit

NextCase == GetTemplateVars \/ NameFromDerivation

SpecCase == InitCase /\ [][NextCase]_vars

\* ------------------------------------------------------------------------
\* Render calls: BaseGenerator.format_template and the Jinja2 rendering of
\* TemplateManager (fast_starter/generators/template_manager.py)
\* ------------------------------------------------------------------------

\* the keys of TemplateManager.get_template_vars
TemplateManager_get_template_vars ==
    {"project_name", "project_name_snake", "project_name_pascal",
     "project_name_kebab", "project_type", "database_type", "auth_type",
     "is_async", "is_advanced", "include_docker", "include_tests",
     "include_docs", "include_monitoring", "include_celery", "python_version"}

\* variables a template may reference: one in both bags, one in the bag of
\* the TemplateManager only, two in neither
RenderFields == <<"project_name", "project_name_kebab", "author", "license">>

Templates == {Text(<<"body">>, f) : f \in SUBSET Range(RenderFields)}

\* extra_vars: a dictionary, here the sequence of its items
ExtraVars ==
    {<<>>, << <<"author", "extra-author">> >>,
     << <<"project_name", "extra-project_name">> >>,
     << <<"author", "extra-author">>, <<"project_name", "extra-project_name">> >>}

\* vars_dict = self.get_template_vars(); vars_dict.update(extra_vars)
vars_dict(kw) ==
    [k \in TemplateManager_get_template_vars \cup Keys(kw) |->
        IF k \in Keys(kw)
        THEN kw[CHOOSE i \in 1..Len(kw) : kw[i][1] = k][2]
        ELSE "base-" \o k]

\* the values Jinja2 puts in place of the variables of t, in the order of
\* RenderFields; the default Undefined of the Environment prints as nothing
RECURSIVE jinja_values(_, _, _)
jinja_values(t, bag, order) ==
    IF order = <<>> THEN <<>>
    ELSE (IF Head(order) \in t.fields /\ Head(order) \in DOMAIN bag
          THEN <<bag[Head(order)]>> ELSE <<>>)
         \o jinja_values(t, bag, Tail(order))

\* template.render(**vars_dict) of an Environment or Template built without
\* an `undefined` argument
jinja_render(t, bag) ==
    [ok |-> TRUE, body |-> t.body \o jinja_values(t, bag, RenderFields)]

\* BaseGenerator.format_template(template)
FormatTemplate ==
    /\ rendered = <<>>
    /\ LET r == format_template(template)
       IN rendered' = <<[by |-> "format_template", ok |-> r.ok, body |-> r.text.body]>>
    /\ UNCHANGED <<engineVars, rerunVars, cliVars, nameVars, template, extra>>

\* TemplateManager.render_string(template_string, extra_vars)
RenderString ==
    /\ rendered = <<>>
    /\ LET r == jinja_render(template, vars_dict(extra))
       IN rendered' = <<[by |-> "render_string", ok |-> r.ok, body |-> r.body]>>
    /\ UNCHANGED <<engineVars, rerunVars, cliVars, nameVars, template, extra>>

\* TemplateManager.render_template(template_name, extra_vars): the loader
\* finds the named template or get_template raises TemplateNotFound
RenderTemplate ==
    /\ rendered = <<>>
    /\ \E found \in BOOLEAN :
         LET r == jinja_render(template, vars_dict(extra))
         IN rendered' = <<[by |-> "render_template", ok |-> found /\ r.ok,
                           body |-> IF found THEN r.body ELSE <<>>]>>
    /\ UNCHANGED <<engineVars, rerunVars, cliVars, nameVars, template, extra>>

\* the keys of TemplateManager._get_base_context (fast_starter/template_manager.py)
_get_base_context ==
    {"project_name", "project_name_snake", "project_name_pascal", "project_type",
     "database_type", "auth_type", "is_async", "is_advanced", "include_docker",
     "include_tests", "include_docs", "include_monitoring", "include_celery",
     "python_version"}

\* context = self._get_base_context(); context.update(kwargs)
context_of(kw) ==
    [k \in _get_base_context \cup Keys(kw) |->
        IF k \in Keys(kw)
        THEN kw[CHOOSE i \in 1..Len(kw) : kw[i][1] = k][2]
        ELSE "base-" \o k]

\* render_template(template_name, **kwargs) of fast_starter/template_manager.py
RenderTemplateContext ==
    /\ rendered = <<>>
    /\ \E found \in BOOLEAN :
         LET r == jinja_render(template, context_of(extra))
         IN rendered' = <<[by |-> "render_template_context", ok |-> found /\ r.ok,
                           body |-> IF found THEN r.body ELSE <<>>]>>
    /\ UNCHANGED <<engineVars, rerunVars, cliVars, nameVars, template, extra>>

InitRender ==
    /\ config = DefaultConfig
    /\ fs = Absent
    /\ prior = fs
    /\ idx = 1
    /\ invoked = <<>>
    /\ wlog = <<>>
    /\ run = 1
    /\ prev = Absent
    /\ prevEmpty = FALSE
    /\ cli = "none"
    /\ pc = "idle"
    /\ cliPc = "none"
    /\ force = FALSE
    /\ sawExisting = FALSE
    /\ answers = <<>>
    /\ exitCode = -1
    /\ NameInit
    /\ template \in Templates
    /\ extra \in ExtraVars
    /\ rendered = <<>>

NextRender ==
    FormatTemplate \/ RenderString \/ RenderTemplate \/ RenderTemplateContext

SpecRender == InitRender /\ [][NextRender]_vars

\* ------------------------------------------------------------------------
\* The interactive mode of startfast from its first prompt
\* ------------------------------------------------------------------------

InitInteractive ==
    /\ EngineInit
    /\ RenderInit
    /\ config \in CLIConfigs
    /\ pc = "idle"
    /\ cli = "startfast_interactive"
    /\ cliPc = "name"
    /\ force = FALSE
    /\ sawExisting = FALSE
    /\ answers = <<>>
    /\ exitCode = -1
    /\ name = <<>>
    /\ rejected = FALSE
    /\ derived = NoDerived
    /\ origin = [via |-> "input", of |-> name]

NextInteractive ==
    \/ GetProjectName \/ CheckTarget \/ AnswerOverwrite \/ SelectOption
    \/ AnswerSummary \/ StartGenerate
    \/ CreateDirectoryStructure \/ GenerateFiles \/ PostGenerationSetup
    \/ Finish

SpecInteractive == InitInteractive /\ [][NextInteractive]_vars

\* ------------------------------------------------------------------------
\* BaseGenerator.write_file on its own
\* ------------------------------------------------------------------------

MaxWrites == 3

WritePaths ==
    {<<"a.txt">>, <<"app">>, <<"app", "core", "security.py">>,
     <<"pkg", "sub", "b.py">>, <<"old.txt", "c.py">>}

Writers == {"first", "second"}

\* mkdir(parents=True, exist_ok=True) raises when an ancestor is a regular
\* file, open(path, "w") raises when the path is a directory
write_file_ok(tree, path) ==
    /\ tree.kind # "file"
    /\ path \notin tree.dirs
    /\ \A d \in Prefixes(path) : d \notin DOMAIN tree.files

\* one call write_file(path, content); the content a writer passes is its name
WriteFile ==
    /\ pc = "write"
    /\ Len(wlog) < MaxWrites
    /\ \E w \in Writers, path \in WritePaths :
         IF write_file_ok(fs, path)
         THEN /\ fs' = write_file(fs, path, <<w>>)
              /\ wlog' = Append(wlog, <<w, path>>)
         ELSE /\ fs' = fs
              /\ wlog' = Append(wlog, <<"raised", path>>)
    /\ UNCHANGED <<nameVars, renderVars, config, prior, pc, idx, invoked, rerunVars, cliVars>>

InitWrite ==
    /\ config = DefaultConfig
    /\ fs \in {Absent, EmptyDir, StaleTree}
    /\ prior = fs
    /\ idx = 1
    /\ invoked = <<>>
    /\ wlog = <<>>
    /\ run = 1
    /\ prev = Absent
    /\ prevEmpty = FALSE
    /\ cli = "none"
    /\ pc = "write"
    /\ cliPc = "none"
    /\ force = FALSE
    /\ sawExisting = FALSE
    /\ answers = <<>>
    /\ exitCode = -1
    /\ NameInit
    /\ RenderInit

NextWrite == WriteFile

SpecWrite == InitWrite /\ [][NextWrite]_vars

\* ------------------------------------------------------------------------
\* Properties
\* ------------------------------------------------------------------------

Ended == pc \in {"done", "failed"}

Written == {wlog[i][2] : i \in 1..Len(wlog)}

WrittenBy(by) == {wlog[i][2] : i \in {j \in 1..Len(wlog) : wlog[j][1] = by}}

Exists(path) == fs.kind = "dir" /\ path \in DOMAIN fs.files

ExistsUnder(prefix) ==
    /\ fs.kind = "dir"
    /\ \E p \in DOMAIN fs.files :
         Len(p) > Len(prefix) /\ SubSeq(p, 1, Len(prefix)) = prefix

FinalizeArtifacts == {<<"README.md">>, <<".gitignore">>, <<".env.template">>}

IsInitFile(path) == Len(path) > 0 /\ path[Len(path)] = "__init__.py"

PhaseRank(p) ==
    CASE p = "idle" -> 0 [] p = "scaffold" -> 1 [] p = "generate" -> 2
      [] p = "finalize" -> 3 [] p = "done" -> 4 [] p = "failed" -> 5

\* C1: generate() runs Scaffold, Generate, Finalize in that order and never
\* returns to an earlier phase; no generator is invoked before every
\* scaffold directory exists; README.md, .gitignore, .env.template and the
\* __init__.py markers are written only after the generator loop has ended,
\* and no generator writes after them.
C1_PhasesInOrder ==
    /\ [][PhaseRank(pc') >= PhaseRank(pc)]_vars
    /\ [](invoked # <<>> =>
            Range(_create_directory_structure_dirs(config)) \subseteq fs.dirs)
    /\ [](\A i \in 1..Len(wlog) :
            (wlog[i][2] \in FinalizeArtifacts \/ IsInitFile(wlog[i][2])) =>
               /\ idx > Len(_setup_generators(config))
               /\ \A j \in i..Len(wlog) : wlog[j][1] = "finalize")

C1_Witness ==
    /\ pc = "done"
    /\ Len(invoked) >= 14
    /\ FinalizeArtifacts \subseteq WrittenBy("finalize")
    /\ Exists(<<"app", "__init__.py">>)

Raised == \E i \in 1..Len(invoked) : ~generate_of(invoked[i], config).ok

\* C2: when a generator's generate() raises, the run is aborted there: the
\* raising generator is the last one invoked, Finalize has produced nothing
\* (no README.md, .gitignore, .env.template, no __init__.py marker), and every
\* file and directory written before the failure is still in the tree.
C2_AbortOnRaise ==
    Raised =>
       /\ pc = "failed"
       /\ \A i \in 1..Len(invoked) :
            ~generate_of(invoked[i], config).ok => i = Len(invoked)
       /\ WrittenBy("finalize") = {}
       /\ \A p \in FinalizeArtifacts : ~Exists(p)
       /\ \A p \in DOMAIN fs.files : ~IsInitFile(p)
       /\ \A p \in Written : Exists(p) /\ Prefixes(p) \subseteq fs.dirs
       /\ Range(_create_directory_structure_dirs(config)) \subseteq fs.dirs

C2_Witness ==
    /\ pc = "failed"
    /\ invoked # <<>>
    /\ invoked[Len(invoked)] = "docker"
    /\ config.include_tests
    /\ Exists(<<"Dockerfile">>)
    /\ ~Exists(<<"docker-compose.yml">>)

\* C3: after a successful run on a target that already existed, the tree is
\* exactly what this run created: its files are the paths this run wrote,
\* its directories the ones this run made, no file holds earlier content and
\* every earlier file this run did not write is gone.
C3_NoMerge ==
    (pc = "done" /\ prior.kind = "dir") =>
       /\ DOMAIN fs.files = Written
       /\ fs.dirs = Range(_create_directory_structure_dirs(config))
                    \cup UNION {Prefixes(p) : p \in Written}
       /\ \A p \in DOMAIN fs.files : fs.files[p] # Stale
       /\ \A p \in DOMAIN prior.files : p \notin Written => ~Exists(p)

C3_Witness ==
    /\ pc = "done"
    /\ prior = StaleTree
    /\ ~Exists(<<"old.txt">>)
    /\ Exists(<<"README.md">>)

UserSaidYes(prompt) ==
    \E i \in 1..Len(answers) :
       answers[i][1] = prompt /\ answers[i][2] \in {"y", "Y"}

UserSaidNo(prompt) ==
    \E i \in 1..Len(answers) :
       answers[i][1] = prompt /\ answers[i][2] \in {"n", "N", "no"}

\* C4: in every front end, generate() is reached for a target that existed
\* when the front end checked it only if --force was given in argument mode
\* or the overwrite prompt was answered affirmatively; a negative answer
\* ends the process with status 0 before any file system change.
C4_OverwriteConfirmed ==
    /\ (cli # "none" /\ pc # "idle" /\ sawExisting) =>
          \/ (cli # "startfast_interactive" /\ force)
          \/ UserSaidYes("overwrite")
    /\ (UserSaidNo("overwrite") \/ UserSaidNo("summary")) =>
          /\ cliPc = "exited"
          /\ exitCode = 0
          /\ pc = "idle"
          /\ fs = prior

C4_Witness ==
    /\ cli = "startfast_interactive"
    /\ force
    /\ sawExisting
    /\ prior = StaleTree
    /\ UserSaidYes("overwrite")
    /\ pc = "done"
    /\ ~Exists(<<"old.txt">>)

\* C5: every file written during the Generate phase has a parent directory
\* that _create_directory_structure created, so write_file never has to make
\* a directory itself.
C5_DirectorySuperset ==
    \A i \in 1..Len(wlog) :
       wlog[i][1] # "finalize" =>
          Parent(wlog[i][2]) \in Range(_create_directory_structure_dirs(config))

DockerPaths == {<<"Dockerfile">>, <<"docker-compose.yml">>, <<".dockerignore">>}

ToggleOffClean(toggle, g, paths, prefixes) ==
    ~toggle =>
       /\ g \notin Range(invoked)
       /\ Ended => /\ \A p \in paths : ~Exists(p)
                   /\ \A d \in prefixes : ~ExistsUnder(d)

\* C6: a feature toggle that is false keeps its generator from being invoked
\* and, at the end of the run (Finalize included), none of that generator's
\* paths exists: Dockerfile, docker-compose.yml, .dockerignore; tests/* and
\* pytest.ini; docs/* and CONTRIBUTING.md; monitoring/* and
\* app/utils/monitoring.py; app/tasks/* and scripts/start_worker.py.
C6_ToggleOff ==
    /\ ToggleOffClean(config.include_docker, "docker", DockerPaths, {})
    /\ ToggleOffClean(config.include_tests, "tests", {<<"pytest.ini">>}, {<<"tests">>})
    /\ ToggleOffClean(config.include_docs, "docs", {<<"CONTRIBUTING.md">>}, {<<"docs">>})
    /\ ToggleOffClean(config.include_monitoring, "monitoring",
                      {<<"app", "utils", "monitoring.py">>}, {<<"monitoring">>})
    /\ ToggleOffClean(config.include_celery, "celery",
                      {<<"scripts", "start_worker.py">>}, {<<"app", "tasks">>})

C6_Witness ==
    /\ pc = "done"
    /\ prior = StaleTree
    /\ ~config.include_docker /\ ~config.include_tests /\ ~config.include_docs
    /\ ~config.include_monitoring /\ ~config.include_celery
    /\ Exists(<<"README.md">>)

ToggleOnComplete(toggle, minimal) ==
    (toggle /\ Ended /\ prior.kind # "file") =>
       /\ pc = "done"
       /\ \A p \in minimal : Exists(p)

\* C7: a feature toggle that is true makes the run complete with at least
\* the minimal file set of its generator in the tree.
C7_ToggleOn ==
    /\ ToggleOnComplete(config.include_docker, DockerPaths)
    /\ ToggleOnComplete(config.include_tests,
                        {<<"tests", "conftest.py">>, <<"pytest.ini">>,
                         <<"tests", "api", "test_endpoints.py">>})
    /\ ToggleOnComplete(config.include_docs,
                        {<<"docs", "api.md">>, <<"docs", "deployment.md">>,
                         <<"docs", "development.md">>, <<"docs", "configuration.md">>,
                         <<"CONTRIBUTING.md">>})
    /\ ToggleOnComplete(config.include_monitoring,
                        {<<"monitoring", "prometheus.yml">>,
                         <<"monitoring", "grafana", "dashboard.json">>,
                         <<"app", "utils", "monitoring.py">>})
    /\ ToggleOnComplete(config.include_celery,
                        {<<"app", "tasks", "celery_app.py">>,
                         <<"app", "tasks", "tasks.py">>,
                         <<"scripts", "start_worker.py">>})

RegistrationOrder ==
    <<"requirements", "environment", "main", "config", "database", "auth",
      "api", "models", "schemas", "services", "utils", "docker", "tests",
      "docs", "monitoring", "celery">>

Position(g) == CHOOSE k \in 1..Len(RegistrationOrder) : RegistrationOrder[k] = g

\* C8: generators are invoked one at a time in the fixed order requirements,
\* environment, main, config, database, auth, api, models, schemas,
\* services, utils, docker, tests, docs, monitoring, celery; each at most
\* once per run and only if its should_generate() is true.
C8_FixedOrder ==
    /\ [](/\ Range(invoked) \subseteq Range(RegistrationOrder)
          /\ \A i, j \in 1..Len(invoked) :
               i < j => Position(invoked[i]) < Position(invoked[j])
          /\ \A i \in 1..Len(invoked) : should_generate(invoked[i], config)
          /\ "monitoring" \in Range(invoked) => config.include_monitoring
          /\ "celery" \in Range(invoked) => config.include_celery)
    /\ [][Len(invoked') <= Len(invoked) + 1]_vars

C8_Witness ==
    /\ pc = "done"
    /\ Len(invoked) = 15
    /\ invoked[15] = "monitoring"
    /\ invoked[12] = "docker"

AuthPaths ==
    {<<"app", "core", "security.py">>, <<"app", "models", "auth.py">>,
     <<"app", "schemas", "auth.py">>, <<"app", "api", "v1", "auth.py">>,
     <<"tests", "api", "test_auth.py">>}

SecurityBodyFor(a) ==
    CASE a = "jwt" -> "security-jwt"
      [] a = "oauth2" -> "security-oauth2"
      [] a = "api-key" -> "security-api-key"

\* C10: with auth_type NONE the AuthGenerator is not invoked and the finished
\* tree holds none of app/core/security.py, app/models/auth.py,
\* app/schemas/auth.py, app/api/v1/auth.py, tests/api/test_auth.py; with JWT,
\* OAUTH2 or API_KEY, app/core/security.py is written exactly once and holds
\* the template body of that auth_type.
C10_AuthFiles ==
    /\ config.auth_type = "none" =>
          /\ "auth" \notin Range(invoked)
          /\ Ended => \A p \in AuthPaths : ~Exists(p)
    /\ (config.auth_type # "none" /\ Ended /\ prior.kind # "file") =>
          /\ Cardinality({i \in 1..Len(wlog) :
                            wlog[i][2] = <<"app", "core", "security.py">>}) = 1
          /\ Exists(<<"app", "core", "security.py">>)
          /\ fs.files[<<"app", "core", "security.py">>] # <<>>
          /\ fs.files[<<"app", "core", "security.py">>][1]
               = SecurityBodyFor(config.auth_type)

C10_Witness ==
    /\ pc = "done"
    /\ config.auth_type = "api-key"
    /\ prior = StaleTree
    /\ Exists(<<"app", "core", "security.py">>)
    /\ fs.files[<<"app", "core", "security.py">>] = <<"security-api-key">>
    /\ Exists(<<"app", "api", "v1", "auth.py">>)

SecurityPath == <<"app", "core", "security.py">>

\* C11: with auth_type JWT the emitted app/core/security.py holds exactly one
\* variant of the user-lookup and current-user functions: the async variant
\* when is_async is true, the sync variant when is_async is false.
C11_JwtVariant ==
    (config.auth_type = "jwt" /\ "auth" \in Range(invoked)) =>
       /\ Exists(SecurityPath)
       /\ LET body == Range(fs.files[SecurityPath])
              hasAsync == {"async-user-functions", "async-current-user"} \subseteq body
              hasSync == {"sync-user-functions", "sync-current-user"} \subseteq body
          IN /\ hasAsync # hasSync
             /\ hasAsync <=> config.is_async

DomainGenerators == <<"models", "schemas", "services">>

\* the files of a tree directly under app/models, app/schemas and
\* app/services, the auth files and the package markers left out
BusinessFiles(tree) ==
    [p \in {q \in DOMAIN tree.files :
              /\ Len(q) = 3
              /\ q[1] = "app"
              /\ q[2] \in {"models", "schemas", "services"}
              /\ q[3] \notin {"auth.py", "__init__.py"}} |-> tree.files[p]]

\* what the models, schemas and services generators write for c, in order
DomainWrites(c) ==
    generate_of("models", c).writes \o generate_of("schemas", c).writes
      \o generate_of("services", c).writes

\* C12: two configurations that differ only in auth_type get the same paths
\* and contents from the models, schemas and services generators: the
\* business files of the finished tree are those any other auth_type yields.
C12_AuthIndependent ==
    "services" \in Range(invoked) =>
       \A a \in AuthType :
          LET other == [config EXCEPT !.auth_type = a]
          IN /\ \A i \in 1..Len(DomainGenerators) :
                  generate_of(DomainGenerators[i], other).ok
             /\ BusinessFiles(fs) = BusinessFiles(write_all(Absent, DomainWrites(other)))

C12_Witness ==
    /\ pc = "done"
    /\ config.auth_type = "jwt"
    /\ config.database_type = "postgresql"
    /\ Exists(<<"app", "models", "auth.py">>)
    /\ Exists(<<"app", "models", "item.py">>)
    /\ Cardinality(DOMAIN BusinessFiles(fs)) = 4
    /\ BusinessFiles(fs)
         = BusinessFiles(write_all(Absent, DomainWrites([config EXCEPT !.auth_type = "none"])))

\* the archetype family a written path belongs to, "none" for shared files
FamilyOfPath(path) ==
    LET file == path[Len(path)]
    IN CASE file \in {"item.py", "item_service.py"} -> "item"
         [] file \in {"prediction.py", "prediction_service.py"} -> "prediction"
         [] file \in {"processing.py", "processing_service.py"} -> "processing"
         [] OTHER -> "none"

FamilyOfType(t) ==
    CASE t \in {"api", "crud"} -> "item"
      [] t = "ml-api" -> "prediction"
      [] t = "microservice" -> "processing"

FamiliesWrittenBy(g) == {FamilyOfPath(p) : p \in WrittenBy(g)} \ {"none"}

\* what generator g wrote in this run, path by path
ContentWrittenBy(g) == [p \in WrittenBy(g) |-> fs.files[p]]

SameAsUnder(g, c) ==
    ContentWrittenBy(g) = write_all(Absent, generate_of(g, c).writes).files

\* C13 as claimed: each of the models, schemas and services generators emits
\* exactly one archetype family, chosen by project_type alone: item for API
\* and CRUD, prediction for ML_API, processing for MICROSERVICE.
C13_OneFamilyEach ==
    "services" \in Range(invoked) =>
       \A i \in 1..Len(DomainGenerators) :
          FamiliesWrittenBy(DomainGenerators[i]) = {FamilyOfType(config.project_type)}

\* C13 amended: the services generator emits exactly one family for every
\* project_type (item, prediction, processing); the models and schemas
\* generators emit item for API and CRUD, prediction for ML_API and no
\* archetype file for MICROSERVICE; no generator emits two families, and
\* API and CRUD get the same files.
C13_FamilyByType ==
    "services" \in Range(invoked) =>
       /\ \A i \in 1..Len(DomainGenerators) :
            LET g == DomainGenerators[i]
            IN /\ FamiliesWrittenBy(g) =
                    (IF g = "services" \/ config.project_type # "microservice"
                     THEN {FamilyOfType(config.project_type)} ELSE {})
               /\ config.project_type \in {"api", "crud"} =>
                    /\ SameAsUnder(g, [config EXCEPT !.project_type = "api"])
                    /\ SameAsUnder(g, [config EXCEPT !.project_type = "crud"])
       /\ config.project_type = "microservice" =>
            /\ WrittenBy("models") = {}
            /\ WrittenBy("schemas") = {<<"app", "schemas", "common.py">>}

C13_Witness ==
    /\ pc = "done"
    /\ config.project_type = "microservice"
    /\ "models" \in Range(invoked)
    /\ WrittenBy("models") = {}
    /\ WrittenBy("services") = {<<"app", "services", "processing_service.py">>}
    /\ Exists(<<"app", "services", "processing_service.py">>)

\* C14: with database_type REDIS and project_type API or CRUD, the item model
\* and item service templates are not recognised: the generators do not
\* raise, the run goes on to the next generator, and neither
\* app/models/item.py nor app/services/item_service.py is created, not even
\* as an empty file.
C14_UnrecognisedEmitsNothing ==
    (config.database_type = "redis" /\ IsItemType(config)
       /\ "services" \in Range(invoked)) =>
       /\ generate_of("models", config).ok
       /\ generate_of("services", config).ok
       /\ pc # "failed" \/ invoked[Len(invoked)] \notin {"models", "services"}
       /\ ~Exists(<<"app", "models", "item.py">>)
       /\ ~Exists(<<"app", "services", "item_service.py">>)

ItemServicePath == <<"app", "services", "item_service.py">>

RelationalServiceBodies ==
    {<<"item-service-sqlalchemy-sync">>, <<"item-service-sqlalchemy-async">>}

DocumentServiceBodies ==
    {<<"item-service-mongodb-sync">>, <<"item-service-mongodb-async">>}

AsyncServiceBodies ==
    {<<"item-service-sqlalchemy-async">>, <<"item-service-mongodb-async">>}

\* C15: for project_type API or CRUD the body of app/services/item_service.py
\* is one of four bodies: relational exactly for SQLITE, POSTGRESQL and
\* MYSQL, document-store exactly for MONGODB, and within the family the
\* async body exactly when is_async is true.
C15_ItemServiceBody ==
    (IsItemType(config) /\ "services" \in Range(invoked)) =>
       /\ Exists(ItemServicePath)
       /\ LET body == fs.files[ItemServicePath]
          IN /\ body \in RelationalServiceBodies \cup DocumentServiceBodies
             /\ body \in RelationalServiceBodies <=> IsRelational(config)
             /\ body \in DocumentServiceBodies <=> config.database_type = "mongodb"
             /\ body \in AsyncServiceBodies <=> config.is_async

ComposePath == <<"docker-compose.yml">>

\* C16: with include_docker and include_celery both true, the docker
\* generator completes and writes docker-compose.yml holding the base block
\* of the database_type and the worker and scheduler blocks: the second
\* rendering pass resolves every placeholder the first pass left.
C16_ComposeWithWorkers ==
    (config.include_docker /\ config.include_celery
       /\ "docker" \in Range(invoked)) =>
       /\ DockerGenerator_compose_template(config).ok
       /\ DockerGenerator_generate(config).ok
       /\ Exists(ComposePath)
       /\ {"compose", "url-" \o config.database_type, "celery-worker-and-beat"}
            \subseteq Range(fs.files[ComposePath])

\* a name of the allowed shape: not empty, only letters, digits, hyphens and
\* underscores
NameAllowed(n) ==
    /\ n # <<>>
    /\ \A i \in 1..Len(n) : isalnum_char(n[i]) \/ n[i] \in {"-", "_"}

\* C17: by every route (direct construction of ProjectConfig, argument mode,
\* interactive mode) a name that is empty or holds a character other than a
\* letter, digit, hyphen or underscore is rejected before any generator runs
\* and before any file system change: no step of generate() acts on it.
C17_NameValidated ==
    (cliPc # "name" /\ ~NameAllowed(name)) =>
       /\ pc \in {"idle", "scaffold"}
       /\ invoked = <<>>
       /\ fs = prior

\* C19: the case derivations are idempotent: a name obtained as the snake,
\* kebab or Pascal derivation of a valid name is returned unchanged by the
\* same derivation.
C19_CaseIdempotent ==
    (origin.via # "input" /\ derived # NoDerived /\ NameAllowed(origin.of)) =>
       derived[1][origin.via] = name

BagOf(by) ==
    IF by = "format_template" THEN get_template_vars
    ELSE IF by = "render_template_context" THEN _get_base_context \cup Keys(extra)
    ELSE TemplateManager_get_template_vars \cup Keys(extra)

\* C20: rendering fails whenever the template references a variable that is
\* absent from the variable bag: no render call of TemplateManager or
\* BaseGenerator returns text for such a template.
C20_UndefinedFails ==
    (rendered # <<>> /\ ~(template.fields \subseteq BagOf(rendered[1].by))) =>
       ~rendered[1].ok

\* the base keys of the bag the render call that produced `rendered` started from
BaseKeysOf(by) ==
    IF by = "format_template" THEN get_template_vars
    ELSE IF by = "render_template_context" THEN _get_base_context
    ELSE TemplateManager_get_template_vars

\* C21: extra variables may add keys to the bag but never silently override
\* a base key: in the text a render call returns, every base variable the
\* template references carries its configuration-derived value.
C21_BaseKeysKept ==
    (rendered # <<>> /\ rendered[1].ok) =>
       \A k \in template.fields \cap BaseKeysOf(rendered[1].by) :
          rendered[1].by = "format_template" \/ ("base-" \o k) \in Range(rendered[1].body)

\* the key set the base bag is said to have: the name and its three case
\* variants, project type, database, auth, the two mode flags, the Python
\* version and the five feature booleans
FixedKeySet ==
    {"project_name", "project_name_snake", "project_name_pascal", "project_name_kebab",
     "project_type", "database_type", "auth_type", "is_async", "is_advanced",
     "python_version", "include_docker", "include_tests", "include_docs",
     "include_monitoring", "include_celery"}

\* C22: whichever route builds the bag, its base keys are the same fixed key
\* set: BaseGenerator.get_template_vars and TemplateManager.get_template_vars
\* return the same keys.
C22_SameKeySet ==
    rendered # <<>> =>
       /\ BaseKeysOf(rendered[1].by) = FixedKeySet
       /\ get_template_vars = TemplateManager_get_template_vars

\* the directories of the optional features: tests, documents, task runner
OptionalDirectories ==
    {<<"tests">>, <<"tests", "api">>, <<"tests", "services">>, <<"docs">>,
     <<"app", "tasks">>}

\* C23: once _create_directory_structure has returned, the directories of
\* every optional feature exist, whatever include_tests, include_docs and
\* include_celery say.
C23_UnionOfDirectories ==
    (pc = PhaseAfter("scaffold") /\ idx = 1) => OptionalDirectories \subseteq fs.dirs

\* the source directories of the finished tree: app, tests and all below them
SourceDirectories == {d \in fs.dirs : Len(d) > 0 /\ d[1] \in {"app", "tests"}}

\* C24: after a successful run every source directory of the finished tree,
\* those a generator created included, holds an __init__.py; README.md,
\* .gitignore and .env.template exist at the root; and every marker lies in
\* a directory that was created.
C24_MarkersEverywhere ==
    pc = "done" =>
       /\ \A d \in SourceDirectories : Exists(d \o <<"__init__.py">>)
       /\ \A p \in FinalizeArtifacts : Exists(p)
       /\ \A p \in WrittenBy("finalize") : Parent(p) \in fs.dirs

C24_Witness ==
    /\ pc = "done"
    /\ config.include_tests /\ config.include_monitoring /\ ~config.include_docs
    /\ <<"tests", "services">> \in SourceDirectories
    /\ <<"tests", "services", "__init__.py">> \in WrittenBy("finalize")
    /\ <<"monitoring">> \in fs.dirs

\* the calls of write_file that returned
Returned == {i \in 1..Len(wlog) : wlog[i][1] # "raised"}

ReturnedPaths == {wlog[i][2] : i \in Returned}

LastWriter(p) ==
    LET last == CHOOSE i \in Returned :
                   /\ wlog[i][2] = p
                   /\ \A j \in Returned : wlog[j][2] = p => j <= i
    IN wlog[last][1]

\* C25: write_file makes the missing ancestors of its path and leaves the
\* path holding exactly the content passed; writing the same content again
\* changes nothing; of two writes to one path the later one is what the file
\* holds; and no other path changes.
C25_WriteFile ==
    pc = "write" =>
       /\ \A p \in ReturnedPaths :
             /\ Exists(p)
             /\ fs.files[p] = <<LastWriter(p)>>
             /\ Prefixes(p) \subseteq fs.dirs
       /\ DOMAIN fs.files = DOMAIN prior.files \cup ReturnedPaths
       /\ \A q \in DOMAIN prior.files \ ReturnedPaths : fs.files[q] = prior.files[q]
       /\ fs.dirs = prior.dirs \cup UNION {Prefixes(p) : p \in ReturnedPaths}
       /\ (wlog # <<>> /\ Len(wlog) \in Returned) =>
             write_file(fs, wlog[Len(wlog)][2], <<wlog[Len(wlog)][1]>>) = fs

C25_Witness ==
    /\ pc = "write"
    /\ prior = StaleTree
    /\ Len(wlog) = 3
    /\ wlog[1] = <<"first", <<"pkg", "sub", "b.py">>>>
    /\ wlog[2] = <<"second", <<"pkg", "sub", "b.py">>>>
    /\ wlog[3] = <<"second", <<"pkg", "sub", "b.py">>>>
    /\ fs.files[<<"pkg", "sub", "b.py">>] = <<"second">>
    /\ <<"pkg", "sub">> \in fs.dirs \ prior.dirs
    /\ fs.files[<<"old.txt">>] = Stale

\* every feature area a generator class exists for
FeatureAreas ==
    {"requirements", "environment", "main", "config", "database", "auth", "api",
     "models", "schemas", "services", "utils", "docker", "tests", "docs",
     "monitoring", "celery"}

\* C26: a completed run yields the list of skipped feature areas: exactly the
\* generators whose should_generate() is false for the configuration,
\* monitoring and celery included when their toggles are off.
C26_SkippedList ==
    pc = "done" =>
       Range(generate_returns(config)) =
          {g \in FeatureAreas : ~should_generate(g, config)}

\* C27: within one run no output path is written by two different writers:
\* the path sets of the generators are pairwise disjoint and disjoint from
\* the package markers and root artifacts of the post-generation setup.
C27_OneWriterPerPath ==
    \A i, j \in 1..Len(wlog) :
       wlog[i][2] = wlog[j][2] => wlog[i][1] = wlog[j][1]

C27_Witness ==
    /\ pc = "done"
    /\ config.auth_type = "api-key"
    /\ config.include_monitoring /\ config.include_tests /\ config.include_docker
    /\ <<"app", "api", "v1", "auth.py">> \in WrittenBy("api")
    /\ SecurityPath \in WrittenBy("auth")
    /\ <<".env.example">> \in WrittenBy("environment")
    /\ <<".env.template">> \in WrittenBy("finalize")
    /\ <<"app", "utils", "monitoring.py">> \in WrittenBy("monitoring")

AuthEndpointsPath == <<"app", "api", "v1", "auth.py">>

\* C28: whenever app/api/v1/auth.py is written, the two modules it imports
\* from, app/core/security.py and app/schemas/auth.py, exist in the finished
\* tree, for every authentication kind.
C28_AuthEndpointsResolve ==
    (pc = "done" /\ AuthEndpointsPath \in Written) =>
       /\ Exists(SecurityPath)
       /\ Exists(<<"app", "schemas", "auth.py">>)

\* C29: for a name of letters, digits, hyphens and underscores the snake-case
\* form has one value: the bag of BaseGenerator, TemplateManager._to_snake_case
\* and the local computation of the docker generator return the same string,
\* and the two Pascal derivations agree as well.
C29_OneSnakePerRun ==
    (derived # NoDerived /\ NameAllowed(name)) =>
       /\ derived[1].base_snake = derived[1].tm_snake
       /\ derived[1].base_snake = DockerGenerator_project_name_snake(name)
       /\ derived[1].base_pascal = derived[1].tm_pascal

C29_Witness ==
    /\ derived # NoDerived
    /\ name = <<"B", "-", "a">>
    /\ origin.via = "input"
    /\ derived[1].base_snake = <<"b", "_", "a">>
    /\ DockerGenerator_project_name_snake(name) = <<"b", "_", "a">>
    /\ derived[1].base_pascal = <<"B", "A">>

\* the place of each position of the interactive front end in the order name,
\* path (with its overwrite prompt), project type, database, authentication,
\* advanced options, optional features, Python version, summary, generate
StepRank(s) ==
    CASE s = "name" -> 1
      [] s \in {"check", "overwrite_prompt"} -> 2
      [] s = "project_type" -> 3
      [] s = "database" -> 4
      [] s = "authentication" -> 5
      [] s = "advanced" -> 6
      [] s = "optional" -> 7
      [] s = "python_version" -> 8
      [] s = "summary" -> 9
      [] s = "run" -> 10
      [] s = "generating" -> 11
      [] OTHER -> 12

Declined ==
    \E i \in 1..Len(answers) :
       \/ answers[i] = <<"summary", "n">>
       \/ answers[i][1] = "overwrite" /\ answers[i][2] \in {"n", ""}

\* C30: interactive mode asks in the order name, path (with the overwrite
\* prompt), project type, database, authentication, advanced options,
\* optional features, Python version, summary; generate() is reached only
\* after the summary was answered affirmatively; declining the summary or the
\* overwrite prompt ends the process with status 0 and the target untouched.
C30_InteractiveOrder ==
    /\ [][(cli = "startfast_interactive" /\ cliPc' # cliPc /\ cliPc' # "exited") =>
             \/ StepRank(cliPc') = StepRank(cliPc) + 1
             \/ (cliPc = "check" /\ cliPc' = "overwrite_prompt")]_vars
    /\ []((cli = "startfast_interactive" /\ pc # "idle") =>
             /\ Len(answers) > 0
             /\ answers[Len(answers)][1] = "summary"
             /\ answers[Len(answers)][2] \in {"y", ""})
    /\ []((cli = "startfast_interactive" /\ Declined) =>
             /\ cliPc = "exited"
             /\ exitCode = 0
             /\ pc = "idle"
             /\ fs = prior)

C30_Witness ==
    /\ cli = "startfast_interactive"
    /\ prior = StaleTree
    /\ name = <<"a", "-", "B">>
    /\ answers = << <<"overwrite", "y">>, <<"project_type", "chosen">>,
                    <<"database", "chosen">>, <<"authentication", "chosen">>,
                    <<"advanced", "chosen">>, <<"optional", "chosen">>,
                    <<"python_version", "chosen">>, <<"summary", "">> >>
    /\ pc = "done"
    /\ cliPc = "exited"
    /\ exitCode = 0

====
